---- MODULE Spec2Model ----
(***************************************************************************)
(* A model of rbrugo/expr: the lexical/precedence resolver (parse_impl),   *)
(* the tree builder (build_impl), the optimizer (optimize_impl) and the    *)
(* evaluator (eval_impl) of class expr::expression, with the node heap     *)
(* behind its std::shared_ptr<node> links.                                 *)
(*                                                                         *)
(* Strings are sequences of one-character strings.  A const_t (double) is  *)
(* a term: <<"n", k>> is the integer k, computed exactly while it stays    *)
(* within ExactCap; <<"c", name>> is pi or e; <<"lit", chars>> is a        *)
(* literal that is not an integer; <<"ap1", f, a>> and <<"ap2", f, a, b>>  *)
(* are the double returned by the library function f on those arguments,   *)
(* left uninterpreted.  Two equal terms are the same double, bit for bit.  *)
(* <<"throw", what, detail>> is a thrown exception and <<"ub", what>> is   *)
(* undefined behaviour.                                                     *)
(***************************************************************************)
EXTENDS Integers, Sequences, FiniteSets, TLC

VARIABLES heap, head, dict, input, status, op, result, passes

vars == <<heap, head, dict, input, status, op, result, passes>>

(***************************************************************************)
(* Bounds of the model.                                                    *)
(***************************************************************************)
\* integers of magnitude up to ExactCap are computed exactly
ExactCap == 1000000
\* operands of the generated expressions are the digits 2..MaxOperand and x
MaxOperand == 3
\* longest postfix token sequence handed to the builder
MaxTokens == 5
\* optimize() is called at most MaxPasses times in a row on one tree
MaxPasses == 2

(***************************************************************************)
(* const_t values                                                          *)
(***************************************************************************)
Num(k) == <<"n", k>>

IsNum(v) == v[1] = "n"

IsFail(v) == v[1] \in {"throw", "ub"}

Abs(k) == IF k < 0 THEN -k ELSE k

Sgn(k) == IF k < 0 THEN -1 ELSE 1

InCap(k) == Abs(k) <= ExactCap

\* |a * b| <= ExactCap, decided without forming the product
MulInCap(a, b) == a = 0 \/ b = 0 \/ Abs(b) <= ExactCap \div Abs(a)

RECURSIVE PowCap(_, _)
\* a^b for b >= 0, or ExactCap + 1 once the magnitude leaves the exact range
PowCap(a, b) ==
    IF b = 0 THEN 1
    ELSE IF a = 0 THEN 0
    ELSE IF a = 1 THEN 1
    ELSE IF a = -1 THEN (IF b % 2 = 0 THEN 1 ELSE -1)
    ELSE IF b > 20 THEN ExactCap + 1
    ELSE LET r == PowCap(a, b - 1)
         IN  IF r = ExactCap + 1 \/ ~MulInCap(r, a) THEN ExactCap + 1 ELSE r * a

IsSquare(k) == k >= 0 /\ \E r \in 0..1000 : r * r = k

ISqrt(k) == CHOOSE r \in 0..1000 : r * r = k

function_plus(a, b) ==
    IF IsNum(a) /\ IsNum(b) /\ InCap(a[2] + b[2])
    THEN Num(a[2] + b[2]) ELSE <<"ap2", "plus", a, b>>

function_minus(a, b) ==
    IF IsNum(a) /\ IsNum(b) /\ InCap(a[2] - b[2])
    THEN Num(a[2] - b[2]) ELSE <<"ap2", "minus", a, b>>

function_multiplies(a, b) ==
    IF IsNum(a) /\ IsNum(b) /\ MulInCap(a[2], b[2])
    THEN Num(a[2] * b[2]) ELSE <<"ap2", "multiplies", a, b>>

\* a / b is an exact double when b divides a; otherwise (and for b = 0, which
\* gives an infinity or a NaN) it is left as the quotient of a and b
function_divides(a, b) ==
    IF IsNum(a) /\ IsNum(b) /\ b[2] # 0 /\ Abs(a[2]) % Abs(b[2]) = 0
    THEN Num(Sgn(a[2]) * Sgn(b[2]) * (Abs(a[2]) \div Abs(b[2])))
    ELSE <<"ap2", "divides", a, b>>

\* static_cast<long>(a) % static_cast<long>(b): the remainder has the sign of
\* the dividend; a zero divisor is undefined behaviour
function_modulus(a, b) ==
    IF IsNum(a) /\ IsNum(b)
    THEN IF b[2] = 0 THEN <<"ub", "modulus by zero">>
         ELSE Num(Sgn(a[2]) * (Abs(a[2]) % Abs(b[2])))
    ELSE <<"ap2", "modulus", a, b>>

function_pow(a, b) ==
    IF IsNum(a) /\ IsNum(b) /\ b[2] >= 0 /\ PowCap(a[2], b[2]) # ExactCap + 1
    THEN Num(PowCap(a[2], b[2])) ELSE <<"ap2", "pow", a, b>>

function_abs(a) == IF IsNum(a) THEN Num(Abs(a[2])) ELSE <<"ap1", "abs", a>>

function_sqrt(a) ==
    IF IsNum(a) /\ IsSquare(a[2]) THEN Num(ISqrt(a[2])) ELSE <<"ap1", "sqrt", a>>

UnaryNames == {"sin", "cos", "tan", "asin", "acos", "atan", "exp", "ln",
               "abs", "sqrt", "cbrt"}

BinaryNames == {"plus", "minus", "multiplies", "divides", "modulus", "pow"}

\* the lambdas of namespace detail::function
LibUnary(name, a) ==
    IF name = "abs" THEN function_abs(a)
    ELSE IF name = "sqrt" THEN function_sqrt(a)
    ELSE <<"ap1", name, a>>

LibBinary(name, a, b) ==
    CASE name = "plus"       -> function_plus(a, b)
      [] name = "minus"      -> function_minus(a, b)
      [] name = "multiplies" -> function_multiplies(a, b)
      [] name = "divides"    -> function_divides(a, b)
      [] name = "modulus"    -> function_modulus(a, b)
      [] name = "pow"        -> function_pow(a, b)

(***************************************************************************)
(* unary_f and binary_f values (std::function): <<"fn", name>> is a lambda *)
(* of detail::function, the other tags are the closures optimize_impl      *)
(* builds, and <<"moved">> is a std::function that was moved from.         *)
(***************************************************************************)
RECURSIVE CallUnary(_, _), CallBinary(_, _, _)
CallUnary(f, a) ==
    IF IsFail(a) THEN a
    ELSE CASE f[1] = "fn"    -> LibUnary(f[2], a)
           [] f[1] = "f_g"   -> CallUnary(f[2], CallUnary(f[3], a))
           [] f[1] = "moved" -> <<"ub", "call of a moved-from function">>

CallBinary(f, a, b) ==
    IF IsFail(a) THEN a
    ELSE IF IsFail(b) THEN b
    ELSE CASE f[1] = "fn"     -> LibBinary(f[2], a, b)
           [] f[1] = "f_a_gb" -> CallBinary(f[2], a, CallUnary(f[3], b))
           [] f[1] = "f_ga_b" -> CallBinary(f[2], CallUnary(f[3], a), b)
           [] f[1] = "f_gab"  -> CallUnary(f[2], CallBinary(f[3], a, b))
           [] f[1] = "moved"  -> <<"ub", "call of a moved-from function">>

(***************************************************************************)
(* Characters                                                              *)
(***************************************************************************)
Lower == <<"a", "b", "c", "d", "e", "f", "g", "h", "i", "j", "k", "l", "m",
           "n", "o", "p", "q", "r", "s", "t", "u", "v", "w", "x", "y", "z">>

Upper == <<"A", "B", "C", "D", "E", "F", "G", "H", "I", "J", "K", "L", "M",
           "N", "O", "P", "Q", "R", "S", "T", "U", "V", "W", "X", "Y", "Z">>

ToLower(c) ==
    IF \E i \in 1..26 : Upper[i] = c
    THEN Lower[CHOOSE i \in 1..26 : Upper[i] = c] ELSE c

ToUpper(c) ==
    IF \E i \in 1..26 : Lower[i] = c
    THEN Upper[CHOOSE i \in 1..26 : Lower[i] = c] ELSE c

DigitChars == <<"0", "1", "2", "3", "4", "5", "6", "7", "8", "9">>

IsDigit(c) == \E i \in 1..10 : DigitChars[i] = c

DigitVal(c) == (CHOOSE i \in 1..10 : DigitChars[i] = c) - 1

IsSpace(c) == c \in {" ", "\t", "\n", "\r", "\f"}

Drop(line, k) == SubSeq(line, k + 1, Len(line))

HasPrefix(line, p) == Len(line) >= Len(p) /\ SubSeq(line, 1, Len(p)) = p

(***************************************************************************)
(* namespace detail                                                        *)
(***************************************************************************)
\* the priorities with every binary operator on one level
sign_priority_flat(ch) ==
    LET x == ToLower(ch)
    IN  IF x \in {"+", "-", "*", "/", "^"} THEN 0
        ELSE IF x \in {"s", "c", "t", "e", "l", "a", "v"} THEN 3
        ELSE -1

sign_priority(ch) ==
    LET x == ToLower(ch)
    IN  IF x = "+" \/ x = "-" THEN 0
        ELSE IF x = "*" \/ x = "/" THEN 1
        ELSE IF x = "^" THEN 2
        ELSE IF x \in {"s", "c", "t", "e", "l", "a", "v"} THEN 3
        ELSE -1

\* the comparison with an equal priority counted as stronger
stronger_or_equal_sign(A, B) == sign_priority(A) >= sign_priority(B)

stronger_sign(A, B) == sign_priority(A) > sign_priority(B)

is_binary_f(ch) == ch \in {"+", "-", "*", "/", "^", "%"}

sign_to_binary(ch) ==
    CASE ch = "+" -> <<"fn", "plus">>
      [] ch = "-" -> <<"fn", "minus">>
      [] ch = "*" -> <<"fn", "multiplies">>
      [] ch = "/" -> <<"fn", "divides">>
      [] ch = "^" -> <<"fn", "pow">>
      [] ch = "%" -> <<"fn", "modulus">>

sign_to_unary(ch) ==
    CASE ch = "s" -> <<"fn", "sin">>
      [] ch = "c" -> <<"fn", "cos">>
      [] ch = "t" -> <<"fn", "tan">>
      [] ch = "S" -> <<"fn", "asin">>
      [] ch = "C" -> <<"fn", "acos">>
      [] ch = "T" -> <<"fn", "atan">>
      [] ch = "l" -> <<"fn", "ln">>
      [] ch = "e" -> <<"fn", "exp">>
      [] ch = "|" -> <<"fn", "abs">>
      [] ch = "v" -> <<"fn", "sqrt">>
      [] ch = "V" -> <<"fn", "cbrt">>

\* the variant_t a sign of the sign buffer is emplaced as (lines 238-243, 343-348)
SignToken(ch) ==
    IF is_binary_f(ch) THEN <<"binary", sign_to_binary(ch)>>
    ELSE <<"unary", sign_to_unary(ch)>>

(***************************************************************************)
(* namespace regex                                                         *)
(***************************************************************************)
RECURSIVE CountDigits(_, _)
\* how many digits stand in line from position p on
CountDigits(line, p) ==
    IF p <= Len(line) /\ IsDigit(line[p]) THEN 1 + CountDigits(line, p + 1) ELSE 0

\* regex::real, ^(\d)+(\.(\d)*)?([Ee](\+|-)?(\d)+)? , part by part.
\* (\d)+ : the length of the integer part
IntLen(line) == CountDigits(line, 1)

\* (\d)+(\.(\d)*)? : the length of the mantissa whose integer part has n1 digits
MantissaOf(line, n1) ==
    IF n1 > 0 /\ Len(line) > n1 /\ line[n1 + 1] = "."
    THEN n1 + 1 + CountDigits(line, n1 + 2) ELSE n1

MantissaLen(line) == MantissaOf(line, IntLen(line))

\* (\+|-)? at position p: 1 when a sign stands there
SignLen(line, p) == IF p <= Len(line) /\ line[p] \in {"+", "-"} THEN 1 ELSE 0

\* the exponent matches only with at least one digit: pre characters, n3 digits
ExponentOf(pre, n3) == IF n3 > 0 THEN pre + n3 ELSE 0

\* ([Ee](\+|-)?(\d)+)? after a mantissa of m characters: its length, or 0
ExponentLen(line, m) ==
    IF m > 0 /\ Len(line) > m /\ line[m + 1] \in {"E", "e"}
    THEN ExponentOf(1 + SignLen(line, m + 2),
                    CountDigits(line, m + 2 + SignLen(line, m + 2)))
    ELSE 0

\* the length of the match of regex::real at the start of line, 0 for none
regex_real(line) == MantissaLen(line) + ExponentLen(line, MantissaLen(line))

RECURSIVE DigitsValue(_)
\* the integer a short run of digits denotes
DigitsValue(ds) ==
    IF ds = <<>> THEN 0
    ELSE 10 * DigitsValue(SubSeq(ds, 1, Len(ds) - 1)) + DigitVal(ds[Len(ds)])

RECURSIVE StripZeros(_)
StripZeros(ds) ==
    IF Len(ds) > 1 /\ ds[1] = "0" THEN StripZeros(Drop(ds, 1)) ELSE ds

AllZeros(ds) == \A i \in 1..Len(ds) : ds[i] = "0"

\* the double with integer digits ip, fraction digits fr and exponent
\* digits ed (negative when neg): an integer when that is exact, else the
\* literal text
StodValue(text, ip, fr, ed, neg) ==
    IF /\ AllZeros(fr)
       /\ Len(ip) <= 7
       /\ Len(ed) <= 1
       /\ (neg => AllZeros(ed))
       /\ InCap(DigitsValue(ip))
       /\ MulInCap(DigitsValue(ip), PowCap(10, DigitsValue(ed)))
    THEN Num(DigitsValue(ip) * PowCap(10, DigitsValue(ed)))
    ELSE <<"lit", text>>

\* text with an integer part of n1 digits and a mantissa of m characters
StodOf(text, n1, m) ==
    StodValue(text,
              StripZeros(SubSeq(text, 1, n1)),
              SubSeq(text, n1 + 2, m),
              StripZeros(SubSeq(text, m + 2 + SignLen(text, m + 2), Len(text))),
              m + 2 <= Len(text) /\ text[m + 2] = "-")

\* std::stod of a text regex::real matched
stod(text) == StodOf(text, IntLen(text), MantissaLen(text))

FunNames == << <<"a", "s", "i", "n">>, <<"s", "i", "n">>,
               <<"a", "c", "o", "s">>, <<"c", "o", "s">>,
               <<"a", "t", "a", "n">>, <<"a", "t", "g">>,
               <<"t", "a", "n">>, <<"t", "g">>,
               <<"l", "n">>, <<"e", "x", "p">>, <<"a", "b", "s">>,
               <<"s", "q", "r", "t">>, <<"c", "b", "r", "t">> >>

\* regex::fun: the length of the function name line begins with, or 0
regex_fun(line) ==
    IF \E i \in 1..Len(FunNames) : HasPrefix(line, FunNames[i])
    THEN Len(FunNames[CHOOSE i \in 1..Len(FunNames) :
                 /\ HasPrefix(line, FunNames[i])
                 /\ \A j \in 1..(i - 1) : ~HasPrefix(line, FunNames[j])])
    ELSE 0

\* regex::valid searched in line: the prefix before the first number or
\* operator, or the whole line when there is none (lines 323-330)
invalid_token(line) ==
    LET hits == {i \in 1..Len(line) : IsDigit(line[i]) \/ is_binary_f(line[i])}
    IN  IF hits = {} THEN line
        ELSE SubSeq(line, 1, (CHOOSE i \in hits : \A j \in hits : i <= j) - 1)

(***************************************************************************)
(* expression::preparse                                                    *)
(***************************************************************************)
RECURSIVE PreparseFrom(_, _)
\* the loop of preparse from position i (1-based) on
PreparseFrom(s, i) ==
    IF i > Len(s) THEN s
    ELSE IF s[i] = "(" /\ (s[i - 1] = ")" \/ IsDigit(s[i - 1]))
         THEN PreparseFrom(SubSeq(s, 1, i - 1) \o <<"*">> \o Drop(s, i - 1), i + 2)
         ELSE PreparseFrom(s, i + 1)

preparse(s) == PreparseFrom(s, 2)

(***************************************************************************)
(* expression::parse_impl                                                  *)
(***************************************************************************)
Parsed(buf) == [ok |-> TRUE, buf |-> buf, err |-> <<"none">>]

ParseError(kind, what) ==
    [ok |-> FALSE, buf |-> <<>>, err |-> <<"throw", kind, what>>]

RECURSIVE PopSigns(_, _, _)
\* the loop of lines 237-246: [buf, signs] after popping for operation
PopSigns(operation, buffer, signs) ==
    IF signs # <<>> /\ ~stronger_sign(operation, signs[Len(signs)])
    THEN PopSigns(operation, Append(buffer, SignToken(signs[Len(signs)])),
                  SubSeq(signs, 1, Len(signs) - 1))
    ELSE [buf |-> buffer, signs |-> signs]

RECURSIVE Drain(_, _)
\* lines 342-349: the sign buffer emptied into the buffer, last sign first
Drain(buffer, signs) ==
    IF signs = <<>> THEN buffer
    ELSE Drain(Append(buffer, SignToken(signs[Len(signs)])),
               SubSeq(signs, 1, Len(signs) - 1))

RECURSIVE CloseIndex(_, _, _)
\* lines 252-266: the 0-based index the scan for the closing parenthesis
\* stops at, Len(line) when there is none
CloseIndex(line, index, counter) ==
    IF index >= Len(line) THEN index
    ELSE LET c == line[index + 1]
             n == IF c = "(" THEN counter + 1
                  ELSE IF c = ")" THEN counter - 1 ELSE counter
         IN  IF n = 0 THEN index ELSE CloseIndex(line, index + 1, n)

\* lines 289-305: the sign a function name is pushed as
FunSign(line) ==
    IF line[1] = "a" THEN (IF line[2] = "b" THEN "|" ELSE ToUpper(line[2]))
    ELSE IF line[1] = "s" THEN (IF line[2] = "q" THEN "v" ELSE "s")
    ELSE IF line[1] = "c" THEN (IF line[2] = "b" THEN "V" ELSE "c")
    ELSE line[1]

\* lines 251-277: an open parenthesis whose scan stopped at index; inner is
\* what parse_impl returned for the text between the parentheses
Parenthesis(line, buffer, signs, index, inner) ==
    IF index = Len(line)
    THEN [ok |-> FALSE, line |-> line, buf |-> buffer, signs |-> signs,
          err |-> <<"throw", "logic_error", "Unterminated parenthesis">>]
    ELSE [ok |-> index = 1 \/ inner.ok, line |-> Drop(line, index + 1),
          buf |-> IF index > 1 THEN buffer \o inner.buf ELSE buffer,
          signs |-> signs, err |-> IF index > 1 THEN inner.err ELSE <<"none">>]

\* lines 310-339: something else; token is invalid_token(line)
SomethingElse(line, buffer, signs, token) ==
    IF ToUpper(line[1]) = "P" /\ Len(line) >= 2 /\ ToUpper(line[2]) = "I"
    THEN [ok |-> TRUE, line |-> Drop(line, 2),
          buf |-> Append(buffer, <<"const", <<"c", "pi">>>>),
          signs |-> signs, err |-> <<"none">>]
    ELSE IF line[1] = "e"
    THEN [ok |-> TRUE, line |-> Drop(line, 1),
          buf |-> Append(buffer, <<"const", <<"c", "e">>>>),
          signs |-> signs, err |-> <<"none">>]
    ELSE IF Len(token) > 1
    THEN [ok |-> FALSE, line |-> line, buf |-> buffer, signs |-> signs,
          err |-> <<"throw", "invalid_argument", token>>]
    ELSE [ok |-> TRUE, line |-> Drop(line, 1),
          buf |-> Append(buffer, <<"param", token[1]>>),
          signs |-> signs, err |-> <<"none">>]

\* the branches of lines 229-309 that call nothing else: a real of nreal
\* characters, an operator (popped is PopSigns for it), a space, a function
\* name of nfun characters
Simple(line, buffer, signs, nreal, popped, nfun) ==
    IF nreal > 0
    THEN [ok |-> TRUE, line |-> Drop(line, nreal),
          buf |-> Append(buffer, <<"const", stod(SubSeq(line, 1, nreal))>>),
          signs |-> signs, err |-> <<"none">>]
    ELSE IF is_binary_f(line[1])
    THEN [ok |-> TRUE, line |-> Drop(line, 1), buf |-> popped.buf,
          signs |-> Append(popped.signs, line[1]), err |-> <<"none">>]
    ELSE IF line[1] = ")"
    THEN [ok |-> FALSE, line |-> line, buf |-> buffer, signs |-> signs,
          err |-> <<"throw", "logic_error",
                    "Closed parentheses without an opening correspective">>]
    ELSE IF IsSpace(line[1])
    THEN [ok |-> TRUE, line |-> Drop(line, 1), buf |-> buffer, signs |-> signs,
          err |-> <<"none">>]
    ELSE [ok |-> TRUE, line |-> Drop(line, nfun), buf |-> buffer,
          signs |-> Append(signs, FunSign(line)), err |-> <<"none">>]

\* which branch of the if-chain of lines 229-339 the line takes
Branch(line, nreal, nfun) ==
    IF nreal > 0 \/ is_binary_f(line[1]) THEN "simple"
    ELSE IF line[1] = "(" THEN "parenthesis"
    ELSE IF line[1] = ")" \/ IsSpace(line[1]) \/ nfun > 0 THEN "simple"
    ELSE "else"

RECURSIVE parse_impl(_), ParseLoop(_, _, _)
\* the loop goes on from what one iteration left, or the error propagates
Continue(step) ==
    IF step.ok THEN ParseLoop(step.line, step.buf, step.signs)
    ELSE ParseError(step.err[2], step.err[3])

\* the inner parse_impl of line 272, called when there is text to parse
InnerParse(line, index) ==
    IF index < Len(line) /\ index > 1 THEN parse_impl(SubSeq(line, 2, index))
    ELSE Parsed(<<>>)

\* one iteration of the while loop of lines 223-340
Step(line, buffer, signs, branch) ==
    IF branch = "simple"
    THEN Simple(line, buffer, signs, regex_real(line),
                PopSigns(line[1], buffer, signs), regex_fun(line))
    ELSE IF branch = "parenthesis"
    THEN Parenthesis(line, buffer, signs, CloseIndex(line, 1, 1),
                     InnerParse(line, CloseIndex(line, 1, 1)))
    ELSE SomethingElse(line, buffer, signs, invalid_token(line))

\* lines 351-353: an empty buffer yields the constant 0
Finished(out) == Parsed(IF out = <<>> THEN <<<<"const", Num(0)>>>> ELSE out)

\* the while loop of lines 223-340 and what follows it
ParseLoop(line, buffer, signs) ==
    IF line = <<>> THEN Finished(Drain(buffer, signs))
    ELSE Continue(Step(line, buffer, signs,
                       Branch(line, regex_real(line), regex_fun(line))))

parse_impl(line) ==
    ParseLoop(line, IF is_binary_f(line[1]) THEN <<<<"const", Num(0)>>>> ELSE <<>>, <<>>)

\* expression::parse
parse(s) ==
    IF s = <<>> THEN Parsed(<<<<"const", Num(0)>>>>) ELSE parse_impl(preparse(s))

(***************************************************************************)
(* struct node.  The heap is the sequence of the nodes allocated so far; a *)
(* std::shared_ptr<node> is an index into it, 0 the null pointer.          *)
(***************************************************************************)
Node(content) == [content |-> content, left |-> 0, right |-> 0]

Kind(h, n) == h[n].content[1]

(***************************************************************************)
(* detail::evalutable                                                      *)
(***************************************************************************)
RECURSIVE evalutable(_, _)
evalutable(h, n) ==
    IF n = 0 THEN FALSE
    ELSE IF Kind(h, n) = "const" THEN TRUE
    ELSE IF Kind(h, n) = "binary"
         THEN evalutable(h, h[n].left) /\ evalutable(h, h[n].right)
    ELSE IF Kind(h, n) = "unary" THEN evalutable(h, h[n].left)
    ELSE FALSE

(***************************************************************************)
(* expression::eval_impl.  The two arguments of binary(...) are evaluated  *)
(* in an order the language leaves unspecified: ord names the argument     *)
(* evaluated first, and a failure of that one is the one that propagates.  *)
(***************************************************************************)
ArgOrders == {"first", "second"}

Unassigned(param) == <<"throw", "Unassigned parameter", param>>

FoundNothing == <<"throw", "Found (literally) nothing...", "">>

NullDeref == <<"ub", "null node dereferenced">>

\* what the call binary(a, b) yields when its arguments evaluate to a and b
\* the binary case with the two values handed over the other way round
BinaryOfSwapped(f, a, b, ord) ==
    IF ord = "first"
    THEN (IF IsFail(a) THEN a ELSE IF IsFail(b) THEN b ELSE CallBinary(f, b, a))
    ELSE (IF IsFail(b) THEN b ELSE IF IsFail(a) THEN a ELSE CallBinary(f, b, a))

BinaryOf(f, a, b, ord) ==
    IF ord = "first"
    THEN (IF IsFail(a) THEN a ELSE IF IsFail(b) THEN b ELSE CallBinary(f, a, b))
    ELSE (IF IsFail(b) THEN b ELSE IF IsFail(a) THEN a ELSE CallBinary(f, a, b))

RECURSIVE eval_impl(_, _, _, _)
\* eval_impl(head) with the dictionary d
eval_impl(h, n, d, ord) ==
    IF n = 0 THEN NullDeref
    ELSE LET c == h[n].content IN
         CASE c[1] = "const"   -> c[2]
           [] c[1] = "param"   -> IF c[2] \in DOMAIN d THEN d[c[2]] ELSE Unassigned(c[2])
           [] c[1] = "unary"   -> CallUnary(c[2], eval_impl(h, h[n].left, d, ord))
           [] c[1] = "binary"  -> BinaryOf(c[2], eval_impl(h, h[n].right, d, ord),
                                           eval_impl(h, h[n].left, d, ord), ord)
           [] c[1] = "nothing" -> FoundNothing

RECURSIVE eval_impl_x(_, _, _, _, _, _)
\* eval_impl(head, x, value) with the dictionary d
eval_impl_x(h, n, d, x, value, ord) ==
    IF n = 0 THEN NullDeref
    ELSE LET c == h[n].content IN
         CASE c[1] = "const"   -> c[2]
           [] c[1] = "param"   -> IF c[2] = x THEN value
                                  ELSE IF c[2] \in DOMAIN d THEN d[c[2]]
                                  ELSE Unassigned(c[2])
           [] c[1] = "unary"   -> CallUnary(c[2], eval_impl_x(h, h[n].left, d, x, value, ord))
           [] c[1] = "binary"  -> BinaryOf(c[2],
                                           eval_impl_x(h, h[n].right, d, x, value, ord),
                                           eval_impl_x(h, h[n].left, d, x, value, ord), ord)
           [] c[1] = "nothing" -> FoundNothing

(***************************************************************************)
(* expression::build_impl, from the symbols parse returned                 *)
(***************************************************************************)
Done == <<"ok">>

EmptyTop == <<"ub", "top of an empty stack">>

RECURSIVE BuildLoop(_, _, _, _)
\* the while loop of lines 404-428; it counts the symbols still to place
BuildLoop(h, stack, symbols, it) ==
    IF it = 0 THEN [heap |-> h, out |-> Done]
    ELSE IF stack = <<>> THEN [heap |-> h, out |-> EmptyTop]
    ELSE LET top == stack[Len(stack)]
             new == Len(h) + 1
             sym == symbols[it]
         IN  IF h[top].left # 0 /\ h[top].right # 0
             THEN BuildLoop(h, SubSeq(stack, 1, Len(stack) - 1), symbols, it)
             ELSE LET h1 == IF h[top].left = 0
                            THEN [Append(h, Node(sym)) EXCEPT ![top].left = new]
                            ELSE [Append(h, Node(sym)) EXCEPT ![top].right = new]
                  IN  IF sym[1] = "unary"
                      THEN BuildLoop([Append(h1, Node(<<"nothing">>))
                                         EXCEPT ![new].right = new + 1],
                                     Append(stack, new), symbols, it - 1)
                      ELSE IF sym[1] = "binary"
                      THEN BuildLoop(h1, Append(stack, new), symbols, it - 1)
                      ELSE BuildLoop(h1, stack, symbols, it - 1)

\* lines 384-430 on the symbols parse returned: the nodes make_shared
\* allocated (the new _head first) and how build_impl ended; _head is
\* assigned before any throw
BuildSymbols(symbols) ==
    LET last == symbols[Len(symbols)]
        h0   == <<Node(last)>>
    IN  IF last[1] = "const"
        THEN [heap |-> h0,
              out |-> IF Len(symbols) > 1
                      THEN <<"throw", "logic_error", "Bad parsing or semantics">>
                      ELSE Done]
        ELSE IF last[1] \in {"unary", "binary"} /\ Len(symbols) = 1
        THEN [heap |-> h0,
              out |-> <<"throw", "logic_error", "Function or operator without arguments">>]
        ELSE BuildLoop(h0, <<1>>, symbols, Len(symbols) - 1)

\* expression::build_impl, lines 381-431: parse, then the tree
build_impl(s) ==
    IF parse(s).ok THEN BuildSymbols(parse(s).buf)
    ELSE [heap |-> <<>>, out |-> parse(s).err]

\* freshly allocated nodes placed after the k nodes of a heap
Relocate(nodes, k) ==
    [i \in 1..Len(nodes) |->
        [content |-> nodes[i].content,
         left    |-> IF nodes[i].left = 0 THEN 0 ELSE nodes[i].left + k,
         right   |-> IF nodes[i].right = 0 THEN 0 ELSE nodes[i].right + k]]

(***************************************************************************)
(* expression::optimize_impl(node): [heap, node, out], node being what the *)
(* shared_ptr passed by reference points to afterwards.                    *)
(***************************************************************************)
Moved(kind) == <<kind, <<"moved">>>>

\* the fusion of lines 454-469 with the unary child left in place
FuseRightKeepingChild(h, n) ==
    LET r   == h[n].right
        new == Len(h) + 1
        fn  == <<"f_a_gb", h[n].content[2], h[r].content[2]>>
        nd  == [content |-> <<"binary", fn>>, left |-> h[n].left, right |-> r]
    IN  [heap |-> Append([h EXCEPT ![n] = [content |-> Moved("binary"),
                                            left |-> 0, right |-> 0]], nd),
         node |-> new]

\* lines 454-469: binary f over a unary right child g
FuseRight(h, n) ==
    LET r   == h[n].right
        new == Len(h) + 1
        fn  == <<"f_a_gb", h[n].content[2], h[r].content[2]>>
        nd  == [content |-> <<"binary", fn>>, left |-> h[n].left, right |-> h[r].left]
    IN  [heap |-> Append([h EXCEPT ![n] = [content |-> Moved("binary"),
                                            left |-> 0, right |-> 0],
                                    ![r] = [content |-> Moved("unary"), left |-> 0,
                                            right |-> h[r].right]], nd),
         node |-> new]

\* lines 470-485: binary f over a unary left child g
FuseLeft(h, n) ==
    LET l   == h[n].left
        new == Len(h) + 1
        fn  == <<"f_ga_b", h[n].content[2], h[l].content[2]>>
        nd  == [content |-> <<"binary", fn>>, left |-> h[l].left, right |-> h[n].right]
    IN  [heap |-> Append([h EXCEPT ![n] = [content |-> Moved("binary"),
                                            left |-> 0, right |-> 0],
                                    ![l] = [content |-> Moved("unary"), left |-> 0,
                                            right |-> h[l].right]], nd),
         node |-> new]

\* lines 498-510: unary f over a unary child g (f and g are copied)
FuseUnary(h, n) ==
    LET t   == h[n].left
        new == Len(h) + 1
        fn  == <<"f_g", h[n].content[2], h[t].content[2]>>
        nd  == [content |-> <<"unary", fn>>, left |-> h[t].left, right |-> 0]
    IN  [heap |-> Append([h EXCEPT ![n].left = 0, ![t].left = 0], nd), node |-> new]

\* lines 512-526: unary f over a binary child g (f and g are copied)
FuseUnaryBinary(h, n) ==
    LET t   == h[n].left
        new == Len(h) + 1
        fn  == <<"f_gab", h[n].content[2], h[t].content[2]>>
        nd  == [content |-> <<"binary", fn>>, left |-> h[t].left, right |-> h[t].right]
    IN  [heap |-> Append([h EXCEPT ![n].left = 0, ![t].left = 0, ![t].right = 0], nd),
         node |-> new]

\* lines 448-450 and 493-495: node->content = const_t{eval_impl(node)}
Fold(h, n, d, ord) ==
    LET v == eval_impl(h, n, d, ord)
    IN  IF IsFail(v) THEN [heap |-> h, node |-> n, out |-> v]
        ELSE [heap |-> [h EXCEPT ![n].content = <<"const", v>>], node |-> n, out |-> Done]

\* lines 452-469 alone: the fusion of a unary right child, none of a left one
FuseBinaryRightOnly(h, n) ==
    LET a == IF h[n].right = 0 THEN [heap |-> h, node |-> 0]
             ELSE IF Kind(h, h[n].right) = "unary" THEN FuseRight(h, n)
             ELSE [heap |-> h, node |-> n]
    IN  IF a.node = 0 \/ a.heap[a.node].left = 0
        THEN [heap |-> a.heap, node |-> a.node, out |-> NullDeref]
        ELSE [heap |-> a.heap, node |-> a.node, out |-> Done]

\* lines 452-486, on a binary node that is not evalutable
FuseBinary(h, n) ==
    LET a == IF h[n].right = 0 THEN [heap |-> h, node |-> 0]
             ELSE IF Kind(h, h[n].right) = "unary" THEN FuseRight(h, n)
             ELSE [heap |-> h, node |-> n]
    IN  IF a.node = 0 \/ a.heap[a.node].left = 0
        THEN [heap |-> a.heap, node |-> a.node, out |-> NullDeref]
        ELSE IF Kind(a.heap, a.heap[a.node].left) = "unary"
        THEN [heap |-> FuseLeft(a.heap, a.node).heap,
              node |-> FuseLeft(a.heap, a.node).node, out |-> Done]
        ELSE [heap |-> a.heap, node |-> a.node, out |-> Done]

RECURSIVE optimize_impl(_, _, _, _)
optimize_impl(h, n, d, ord) ==
    IF n = 0 THEN [heap |-> h, node |-> n, out |-> NullDeref]
    ELSE IF Kind(h, n) = "binary"
    THEN LET l  == optimize_impl(h, h[n].left, d, ord)
             h1 == [l.heap EXCEPT ![n].left = l.node]
             r  == optimize_impl(h1, h1[n].right, d, ord)
             h2 == [r.heap EXCEPT ![n].right = r.node]
         IN  IF l.out # Done THEN [heap |-> h1, node |-> n, out |-> l.out]
             ELSE IF r.out # Done THEN [heap |-> h2, node |-> n, out |-> r.out]
             ELSE IF evalutable(h2, n) THEN Fold(h2, n, d, ord)
             ELSE FuseBinary(h2, n)
    ELSE IF Kind(h, n) = "unary"
    THEN LET l  == optimize_impl(h, h[n].left, d, ord)
             h1 == [l.heap EXCEPT ![n].left = l.node]
         IN  IF l.out # Done THEN [heap |-> h1, node |-> n, out |-> l.out]
             ELSE IF evalutable(h1, h1[n].left) THEN Fold(h1, n, d, ord)
             ELSE IF Kind(h1, h1[n].left) = "unary"
             THEN [heap |-> FuseUnary(h1, n).heap, node |-> FuseUnary(h1, n).node,
                   out |-> Done]
             ELSE IF Kind(h1, h1[n].left) = "binary"
             THEN [heap |-> FuseUnaryBinary(h1, n).heap,
                   node |-> FuseUnaryBinary(h1, n).node, out |-> Done]
             ELSE [heap |-> h1, node |-> n, out |-> Done]
    ELSE [heap |-> h, node |-> n, out |-> Done]

(***************************************************************************)
(* Ownership.  A node lives while a shared_ptr points to it; the heap is   *)
(* kept as the nodes the expressions still reach, numbered in the order a  *)
(* walk from the roots meets them (an address carries no other meaning).   *)
(***************************************************************************)
InSeq(x, sq) == \E i \in 1..Len(sq) : sq[i] = x

PosIn(x, sq) == IF x = 0 THEN 0 ELSE CHOOSE i \in 1..Len(sq) : sq[i] = x

RECURSIVE Visit(_, _, _)
\* acc extended by the nodes reached from n that it does not hold yet
Visit(h, n, acc) ==
    IF n = 0 \/ InSeq(n, acc) THEN acc
    ELSE Visit(h, h[n].right, Visit(h, h[n].left, Append(acc, n)))

RECURSIVE VisitAll(_, _, _)
VisitAll(h, roots, acc) ==
    IF roots = <<>> THEN acc
    ELSE VisitAll(h, Drop(roots, 1), Visit(h, roots[1], acc))

Objects == <<"e", "c", "f">>

\* the roots of the live expressions, in the order of Objects
Roots(hd) ==
    LET pick(o) == IF o \in DOMAIN hd THEN <<hd[o]>> ELSE <<>>
    IN  pick("e") \o pick("c") \o pick("f")

Live(h, hd) == VisitAll(h, Roots(hd), <<>>)

ReleasedHeap(h, hd) ==
    LET live == Live(h, hd)
    IN  [k \in 1..Len(live) |->
            [content |-> h[live[k]].content,
             left    |-> PosIn(h[live[k]].left, live),
             right   |-> PosIn(h[live[k]].right, live)]]

ReleasedHead(h, hd) == [o \in DOMAIN hd |-> PosIn(hd[o], Live(h, hd))]

\* the tree under n, unfolded
RECURSIVE TreeOf(_, _)
TreeOf(h, n) ==
    IF n = 0 THEN <<>>
    ELSE <<h[n].content, TreeOf(h, h[n].left), TreeOf(h, h[n].right)>>

(***************************************************************************)
(* Inputs                                                                  *)
(***************************************************************************)
Policies == {"build", "optimize"}

ParamNames == {"x", "y"}

Values == {Num(-3), Num(4)}

NoDict == [n \in {} |-> Num(0)]

\* std::map::insert, which keeps the value a key already has
insert(d, name, value) ==
    [n \in DOMAIN d \cup {name} |-> IF n \in DOMAIN d THEN d[n] ELSE value]

\* std::map::insert_or_assign
insert_or_assign(d, name, value) ==
    [n \in DOMAIN d \cup {name} |-> IF n = name THEN value ELSE d[n]]

Sources ==
    { <<"x", "+", "1">>,
      <<"y">>,
      <<"2", "+", "3", "*", "4">>,
      <<"2", "*", "a", "b", "s", "(", "x", ")">>,
      <<"s", "q", "r", "t", "(", "x", ")", "+", "y">>,
      <<"x", "-", "a", "b", "s", "(", "y", ")">>,
      <<"2", "*", "s", "i", "n", "(", "x", ")">>,
      <<"s", "i", "n", "(", "c", "o", "s", "(", "t", "a", "n", "(", "x", ")", ")", ")">>,
      <<"a", "b", "s", "(", "x", "-", "5", ")", "*", "(", "1", "+", "2", ")">>,
      <<"1", "+">>,
      <<"2", "*", "-", "3">>,
      <<"s", "i", "n">>,
      <<"1", " ", "2">>,
      <<"2", "x">>,
      <<"x", "2", "y">>,
      <<"1", " ", "2", "+", "3">>,
      <<"(", "1", "+", "2">> }

\* the sources an existing expression is rebuilt from
Rebuilds ==
    { <<"x", "+", "1">>,
      <<"x", "-", "a", "b", "s", "(", "y", ")">>,
      <<"1", "+">>,
      <<"s", "i", "n">>,
      <<"1", " ", "2">>,
      <<"2", "x">>,
      <<"1", " ", "2", "+", "3">> }

(***************************************************************************)
(* The operations of class expression on the object o.  op is the call,    *)
(* result what it returned or raised; after undefined behaviour (status    *)
(* "ub") nothing more is said about the program.  passes[o] counts the     *)
(* optimize() calls made on o since its tree was built.                    *)
(***************************************************************************)
\* the state a call leaves when it runs into undefined behaviour
Undefined(call, what) ==
    /\ status' = "ub"
    /\ op' = call
    /\ result' = what
    /\ UNCHANGED <<heap, head, dict, input, passes>>

\* build_impl on each source of Sources
BuiltSources == [s \in Sources |-> build_impl(s)]

\* expression::build(policy, src), lines 372-379, b being build_impl(s)
BuildAs(o, p, s, b) ==
    /\ status = "ok"
    /\ o \in DOMAIN head
    /\ LET call == <<"build", o, p, s>>
           h    == heap \o Relocate(b.heap, Len(heap))
           hd   == [head EXCEPT ![o] = Len(heap) + 1]
       IN  IF b.heap = <<>>
           THEN /\ op' = call
                /\ result' = b.out
                /\ UNCHANGED <<heap, head, dict, input, status, passes>>
           ELSE IF b.out[1] = "ub" THEN Undefined(call, b.out)
           ELSE IF b.out[1] = "throw"
           THEN /\ heap' = ReleasedHeap(h, hd)
                /\ head' = ReleasedHead(h, hd)
                /\ op' = call
                /\ result' = b.out
                /\ passes' = [passes EXCEPT ![o] = 0]
                /\ UNCHANGED <<dict, input, status>>
           ELSE IF p = "build"
           THEN /\ heap' = ReleasedHeap(h, hd)
                /\ head' = ReleasedHead(h, hd)
                /\ input' = [input EXCEPT ![o] = s]
                /\ op' = call
                /\ result' = Done
                /\ passes' = [passes EXCEPT ![o] = 0]
                /\ UNCHANGED <<dict, status>>
           ELSE \E ord \in ArgOrders :
                LET r   == optimize_impl(h, hd[o], dict[o], ord)
                    hd2 == [head EXCEPT ![o] = r.node]
                IN  IF r.out # Done THEN Undefined(call, r.out)
                    ELSE /\ heap' = ReleasedHeap(r.heap, hd2)
                         /\ head' = ReleasedHead(r.heap, hd2)
                         /\ input' = [input EXCEPT ![o] = s]
                         /\ op' = call
                         /\ result' = Done
                         /\ passes' = [passes EXCEPT ![o] = 1]
                         /\ UNCHANGED <<dict, status>>

Build(o, p, s) == BuildAs(o, p, s, BuiltSources[s])

\* expression::optimize, lines 433-439
Optimize(o) ==
    /\ status = "ok"
    /\ o \in DOMAIN head
    /\ passes[o] < MaxPasses
    /\ \E ord \in ArgOrders :
        LET call == <<"optimize", o>>
            r    == optimize_impl(heap, head[o], dict[o], ord)
            hd   == [head EXCEPT ![o] = r.node]
        IN  IF head[o] = 0
            THEN /\ op' = call
                 /\ result' = Done
                 /\ passes' = [passes EXCEPT ![o] = @ + 1]
                 /\ UNCHANGED <<heap, head, dict, input, status>>
            ELSE IF r.out # Done THEN Undefined(call, r.out)
            ELSE /\ heap' = ReleasedHeap(r.heap, hd)
                 /\ head' = ReleasedHead(r.heap, hd)
                 /\ op' = call
                 /\ result' = Done
                 /\ passes' = [passes EXCEPT ![o] = @ + 1]
                 /\ UNCHANGED <<dict, input, status>>

\* expression::set_param, lines 612-616
SetParam(o, name, value) ==
    /\ status = "ok"
    /\ o \in DOMAIN head
    /\ dict' = [dict EXCEPT ![o] = insert_or_assign(dict[o], name, value)]
    /\ op' = <<"set_param", o, name, value>>
    /\ result' = Done
    /\ UNCHANGED <<heap, head, input, status, passes>>

\* what an evaluation leaves: the tree and the dictionary are not written
Evaluated(call, v) ==
    /\ op' = call
    /\ result' = v
    /\ status' = IF v[1] = "ub" THEN "ub" ELSE "ok"
    /\ UNCHANGED <<heap, head, dict, input, passes>>

\* expression::eval(), lines 531-535
Eval(o) ==
    /\ status = "ok"
    /\ o \in DOMAIN head
    /\ \E ord \in ArgOrders :
        Evaluated(<<"eval", o>>,
                  IF head[o] = 0 THEN <<"nullopt">>
                  ELSE eval_impl(heap, head[o], dict[o], ord))

\* expression::eval(ch, value), lines 537-541
EvalX(o, ch, value) ==
    /\ status = "ok"
    /\ o \in DOMAIN head
    /\ \E ord \in ArgOrders :
        Evaluated(<<"eval_x", o, ch, value>>,
                  IF head[o] = 0 THEN <<"nullopt">>
                  ELSE eval_impl_x(heap, head[o], dict[o], ch, value, ord))

\* the constructors, lines 174-191: the object o exists once build returned;
\* b is build_impl(s)
ConstructedAs(o, p, s, b) ==
    /\ b.out = Done
    /\ \E ord \in ArgOrders :
        LET r   == IF p = "optimize" THEN optimize_impl(b.heap, 1, NoDict, ord)
                   ELSE [heap |-> b.heap, node |-> 1, out |-> Done]
            hd  == [n \in {o} |-> r.node]
        IN  /\ r.out = Done
            /\ heap = ReleasedHeap(r.heap, hd)
            /\ head = ReleasedHead(r.heap, hd)
    /\ dict = [n \in {o} |-> NoDict]
    /\ input = [n \in {o} |-> s]
    /\ passes = [n \in {o} |-> IF p = "optimize" THEN 1 ELSE 0]
    /\ status = "ok"
    /\ op = <<"expression", o, p, s>>
    /\ result = Done

Constructed(o, p, s) == ConstructedAs(o, p, s, BuiltSources[s])

(***************************************************************************)
(* Spec: one expression through its life: constructed from a source, then  *)
(* rebuilt, optimized, bound and evaluated in any order.                   *)
(***************************************************************************)
Init == \E s \in Sources : \E p \in Policies : Constructed("e", p, s)

Next ==
    \/ \E s \in Rebuilds : \E p \in Policies : Build("e", p, s)
    \/ Optimize("e")
    \/ \E name \in ParamNames : \E value \in Values : SetParam("e", name, value)
    \/ Eval("e")
    \/ \E name \in ParamNames : \E value \in Values : EvalX("e", name, value)

Spec == Init /\ [][Next]_vars

(***************************************************************************)
(* SpecParse: an expression constructed from a formula over the operands   *)
(* 2..MaxOperand and x, then evaluated.  The formulas are two operators in *)
(* a row ("a+b*c"), a parenthesised operator ("(a+b)*c") and a function    *)
(* applied before an operator ("sin(a)+b").                                *)
(***************************************************************************)
Operands == {<<DigitChars[k + 1]>> : k \in 2..MaxOperand} \cup {<<"x">>}

Operators == {"+", "-", "*", "/", "^", "%"}

Chained ==
    {a \o <<o1>> \o b \o <<o2>> \o c :
        a \in Operands, o1 \in Operators, b \in Operands, o2 \in Operators,
        c \in Operands}

Parenthesised ==
    {<<"(">> \o a \o <<o1>> \o b \o <<")", o2>> \o c :
        a \in Operands, o1 \in Operators, b \in Operands, o2 \in Operators,
        c \in Operands}

\* the names regex::fun accepts
FunTexts ==
    { <<"s", "i", "n">>, <<"c", "o", "s">>, <<"t", "a", "n">>, <<"t", "g">>,
      <<"a", "s", "i", "n">>, <<"a", "c", "o", "s">>, <<"a", "t", "a", "n">>,
      <<"a", "t", "g">>, <<"l", "n">>, <<"e", "x", "p">>, <<"a", "b", "s">>,
      <<"s", "q", "r", "t">>, <<"c", "b", "r", "t">> }

Applied ==
    {f \o <<"(">> \o a \o <<")", o>> \o b :
        f \in FunTexts, a \in Operands, o \in Operators, b \in Operands}

Examples ==
    { <<"2", "+", "3", "*", "4">>, <<"(", "2", "+", "3", ")", "*", "4">>,
      <<"2", "^", "3", "^", "2">>, <<"8", "-", "3", "-", "2">> }

Formulas == Chained \cup Parenthesised \cup Applied \cup Examples

InitParse == \E s \in Formulas : ConstructedAs("e", "build", s, build_impl(s))

NextParse ==
    \/ Eval("e")
    \/ \E value \in Values : EvalX("e", "x", value)

SpecParse == InitParse /\ [][NextParse]_vars

(***************************************************************************)
(* SpecPostfix: the builder, the optimizer and the evaluator without the   *)
(* resolver.  The tree is built from a well-formed postfix sequence of at  *)
(* most MaxTokens symbols (what parse returns for a valid expression),     *)
(* then optimized and evaluated; input holds the symbols.                  *)
(***************************************************************************)
Symbols ==
    { <<"const", Num(7)>>, <<"const", Num(2)>>, <<"param", "x">>,
      <<"unary", <<"fn", "abs">>>>,
      <<"binary", <<"fn", "minus">>>>, <<"binary", <<"fn", "divides">>>>,
      <<"binary", <<"fn", "modulus">>>>, <<"binary", <<"fn", "pow">>>> }

RECURSIVE Operands_left(_, _, _)
\* the number of operands on the stack of a postfix evaluation after the
\* first i symbols, starting from n; -1 when an operator lacks operands
Operands_left(symbols, i, n) ==
    IF i > Len(symbols) THEN n
    ELSE IF symbols[i][1] = "unary"
    THEN (IF n < 1 THEN -1 ELSE Operands_left(symbols, i + 1, n))
    ELSE IF symbols[i][1] = "binary"
    THEN (IF n < 2 THEN -1 ELSE Operands_left(symbols, i + 1, n - 1))
    ELSE Operands_left(symbols, i + 1, n + 1)

Postfixes ==
    {symbols \in UNION {[1..n -> Symbols] : n \in 1..MaxTokens} :
        Operands_left(symbols, 1, 0) = 1}

InitPostfix ==
    \E symbols \in Postfixes : \E p \in Policies :
        ConstructedAs("e", p, symbols, BuildSymbols(symbols))

NextPostfix ==
    \/ Optimize("e")
    \/ Eval("e")
    \/ \E value \in Values : EvalX("e", "x", value)

SpecPostfix == InitPostfix /\ [][NextPostfix]_vars

(***************************************************************************)
(* SpecCopy: an expression e, its copy c (the implicit copy constructor    *)
(* copies the shared_ptr _head and the dictionary) and the closure f that  *)
(* as_unary returns, which holds a copy of e (const &) or e itself (&&);   *)
(* as_unary is called with its default parameter name 'x'.                 *)
(***************************************************************************)
Extended(fun, o, v) == [n \in DOMAIN fun \cup {o} |-> IF n = o THEN v ELSE fun[n]]

\* expression(expression const &), implicit: c becomes a copy of o
Copy(o, c) ==
    /\ status = "ok"
    /\ o \in DOMAIN head
    /\ c \notin DOMAIN head
    /\ head' = Extended(head, c, head[o])
    /\ dict' = Extended(dict, c, dict[o])
    /\ input' = Extended(input, c, input[o])
    /\ passes' = Extended(passes, c, passes[o])
    /\ op' = <<"copy", o, c>>
    /\ result' = Done
    /\ UNCHANGED <<heap, status>>

\* expression::as_unary(ch) const &, lines 618-626: f = *this
AsUnary(o, f) ==
    /\ status = "ok"
    /\ o \in DOMAIN head
    /\ f \notin DOMAIN head
    /\ op' = <<"as_unary", o, "x">>
    /\ IF head[o] = 0
       THEN /\ result' = <<"nullopt">>
            /\ UNCHANGED <<heap, head, dict, input, status, passes>>
       ELSE /\ head' = Extended(head, f, head[o])
            /\ dict' = Extended(dict, f, dict[o])
            /\ input' = Extended(input, f, input[o])
            /\ passes' = Extended(passes, f, passes[o])
            /\ result' = Done
            /\ UNCHANGED <<heap, status>>

\* expression::as_unary(ch) &&, lines 628-636: f = std::move(*this); the
\* moved-from _head is null, the moved-from map is left in any valid state
AsUnaryMoved(o, f) ==
    /\ status = "ok"
    /\ o \in DOMAIN head
    /\ f \notin DOMAIN head
    /\ op' = <<"as_unary_moved", o, "x">>
    /\ IF head[o] = 0
       THEN /\ result' = <<"nullopt">>
            /\ UNCHANGED <<heap, head, dict, input, status, passes>>
       ELSE /\ head' = [Extended(head, f, head[o]) EXCEPT ![o] = 0]
            /\ \E left \in {NoDict, dict[o]} :
                   dict' = [Extended(dict, f, dict[o]) EXCEPT ![o] = left]
            /\ input' = Extended(input, f, input[o])
            /\ passes' = Extended(passes, f, passes[o])
            /\ result' = Done
            /\ UNCHANGED <<heap, status>>

\* the closure of as_unary called: f.eval(ch, x).value(), lines 623-625
Call(f, value) ==
    /\ status = "ok"
    /\ f \in DOMAIN head
    /\ \E ord \in ArgOrders :
        Evaluated(<<"call", f, value>>,
                  IF head[f] = 0 THEN <<"throw", "bad_optional_access", "">>
                  ELSE eval_impl_x(heap, head[f], dict[f], "x", value, ord))

CopySources ==
    { <<"1", "+", "2">>, <<"a", "b", "s", "(", "x", ")", "*", "2">> }

InitCopy ==
    \E s \in CopySources : \E p \in Policies : ConstructedAs("e", p, s, build_impl(s))

NextCopy ==
    \/ Copy("e", "c")
    \/ AsUnary("e", "f")
    \/ AsUnaryMoved("e", "f")
    \/ \E o \in {"e", "c"} : Optimize(o)
    \/ \E o \in {"e", "c"} : \E value \in Values : SetParam(o, "x", value)
    \/ \E o \in {"e", "c"} : Eval(o)
    \/ \E o \in {"e", "c"} : \E value \in Values : EvalX(o, "x", value)
    \/ \E value \in Values : Call("f", value)

SpecCopy == InitCopy /\ [][NextCopy]_vars

(***************************************************************************)
(* What the claims speak of                                                *)
(***************************************************************************)
\* the shape the data model asks of a tree: a Constant or Parameter has no
\* children, a UnaryOperator has its operand on the left (and the sentinel or
\* nothing on the right), a BinaryOperator has two operands
RECURSIVE WellFormed(_, _)
WellFormed(h, n) ==
    /\ n # 0
    /\ CASE Kind(h, n) \in {"const", "param"} -> h[n].left = 0 /\ h[n].right = 0
         [] Kind(h, n) = "unary" ->
                /\ WellFormed(h, h[n].left)
                /\ (h[n].right = 0 \/ Kind(h, h[n].right) = "nothing")
         [] Kind(h, n) = "binary" ->
                WellFormed(h, h[n].left) /\ WellFormed(h, h[n].right)
         [] OTHER -> FALSE

\* the dictionaries over the parameter names, partial ones included
Bindings ==
    UNION {[names -> Values] : names \in SUBSET ParamNames}

\* u and v are known to be different outcomes: equal terms are the same
\* double, and two exact integers, or an integer and a failure, that are not
\* equal terms are different; of other terms the model does not tell
Distinct(u, v) == u # v /\ (IsNum(u) \/ IsFail(u)) /\ (IsNum(v) \/ IsFail(v))

\* the step just taken was the call named, and it returned
Returned(name) == op'[1] = name /\ status' = "ok" /\ result' = Done

(***************************************************************************)
(* C1  Optimizer equivalence: on a well-formed tree, under every binding   *)
(* (and every override) for which evaluation succeeds, eval returns after  *)
(* optimize() the value it returned before (here: never a value known to   *)
(* be another one).                                                        *)
(***************************************************************************)
SameValues(h1, n1, h2, n2) ==
    \A d \in Bindings :
        /\ ~IsFail(eval_impl(h1, n1, d, "first"))
              => ~Distinct(eval_impl(h2, n2, d, "first"), eval_impl(h1, n1, d, "first"))
        /\ \A x \in ParamNames : \A v \in Values :
              ~IsFail(eval_impl_x(h1, n1, d, x, v, "first"))
              => ~Distinct(eval_impl_x(h2, n2, d, x, v, "first"),
                           eval_impl_x(h1, n1, d, x, v, "first"))

C1_OptimizeKeepsValues ==
    [][(Returned("optimize") /\ WellFormed(heap, head["e"]))
          => SameValues(heap, head["e"], heap', head'["e"])]_vars

(***************************************************************************)
(* C6  Parameters are resolved when eval runs: set_param inserts or        *)
(* overwrites its name and no other call writes the dictionary; optimize   *)
(* keeps every Parameter of the tree; eval() returns the value of the tree *)
(* with each Parameter replaced by its dictionary value, and eval(name, v) *)
(* the value with name replaced by v, bound or not, and the others by      *)
(* their dictionary values.  For "x+1", eval() is x + 1.                   *)
(***************************************************************************)
RECURSIVE ParamSeq(_, _)
\* the Parameters of the tree under n, left to right
ParamSeq(h, n) ==
    IF n = 0 THEN <<>>
    ELSE ParamSeq(h, h[n].left)
         \o (IF Kind(h, n) = "param" THEN <<h[n].content[2]>> ELSE <<>>)
         \o ParamSeq(h, h[n].right)

\* the nodes of h with each Parameter that b binds replaced by its value
Bound(h, b) ==
    [i \in DOMAIN h |->
        IF h[i].content[1] = "param" /\ h[i].content[2] \in DOMAIN b
        THEN [h[i] EXCEPT !.content = <<"const", b[h[i].content[2]]>>]
        ELSE h[i]]

\* what the tree under n is worth under the binding b
ValuesUnder(h, n, b) ==
    IF n = 0 THEN {<<"nullopt">>}
    ELSE {eval_impl(Bound(h, b), n, NoDict, ord) : ord \in ArgOrders}

Rebound(d, name, value) ==
    [n \in DOMAIN d \cup {name} |-> IF n = name THEN value ELSE d[n]]

XPlusOne == TreeOf(BuildSymbols(<<<<"param", "x">>, <<"const", Num(1)>>,
                                  <<"binary", <<"fn", "plus">>>>>>).heap, 1)

C6_ResolvedAtEval ==
    [][/\ op'[1] = "set_param"
            => dict'["e"] = Rebound(dict["e"], op'[3], op'[4])
       /\ op'[1] # "set_param" => dict' = dict
       /\ Returned("optimize")
            => ParamSeq(heap', head'["e"]) = ParamSeq(heap, head["e"])
       /\ op'[1] = "eval"
            => result' \in ValuesUnder(heap, head["e"], dict["e"])
       /\ op'[1] = "eval_x"
            => result' \in ValuesUnder(heap, head["e"],
                                       Rebound(dict["e"], op'[3], op'[4]))
       /\ (op'[1] = "eval" /\ TreeOf(heap, head["e"]) = XPlusOne
             /\ "x" \in DOMAIN dict["e"])
            => result' = function_plus(dict["e"]["x"], Num(1))
       /\ (op'[1] = "eval_x" /\ op'[3] = "x" /\ TreeOf(heap, head["e"]) = XPlusOne)
            => result' = function_plus(op'[4], Num(1))]_vars

\* "x+1" evaluated to 5 with x bound to 4 after the tree was built
C6_Witness ==
    /\ op = <<"eval", "e">>
    /\ TreeOf(heap, head["e"]) = XPlusOne
    /\ dict["e"] = [n \in {"x"} |-> Num(4)]
    /\ result = Num(5)

(***************************************************************************)
(* C7  An eval of a tree holding a Parameter that is neither the override  *)
(* nor a key of the dictionary raises the unassigned-parameter error for   *)
(* such a Parameter and leaves tree and dictionary as they were; once      *)
(* every name is bound the eval returns the value under that binding.      *)
(***************************************************************************)
RECURSIVE ParamsIn(_, _)
ParamsIn(h, n) ==
    IF n = 0 THEN {}
    ELSE ParamsIn(h, h[n].left) \cup ParamsIn(h, h[n].right)
         \cup (IF Kind(h, n) = "param" THEN {h[n].content[2]} ELSE {})

EvalReports(missing, b) ==
    /\ missing # {} => /\ result' \in {Unassigned(name) : name \in missing}
                       /\ UNCHANGED <<heap, head, dict>>
    /\ missing = {} => /\ result'[1] # "throw" \/ result'[2] # "Unassigned parameter"
                       /\ result' \in ValuesUnder(heap, head["e"], b)

C7_UnassignedReported ==
    [][/\ op'[1] = "eval"
            => EvalReports(ParamsIn(heap, head["e"]) \ DOMAIN dict["e"], dict["e"])
       /\ op'[1] = "eval_x"
            => EvalReports(ParamsIn(heap, head["e"]) \ (DOMAIN dict["e"] \cup {op'[3]}),
                           Rebound(dict["e"], op'[3], op'[4]))]_vars

(***************************************************************************)
(* C8  optimize() is idempotent: an optimize() that follows an optimize()  *)
(* (or a build with the optimize policy) leaves every node content and     *)
(* child link, hence every eval result, as the first pass left them.       *)
(***************************************************************************)
JustOptimized ==
    /\ result = Done
    /\ \/ op[1] = "optimize"
       \/ op[1] \in {"build", "expression"} /\ op[3] = "optimize"

C8_OptimizeIdempotent ==
    [][(JustOptimized /\ Returned("optimize"))
          => /\ TreeOf(heap', head'["e"]) = TreeOf(heap, head["e"])
             /\ \A b \in Bindings :
                    ValuesUnder(heap', head'["e"], b) = ValuesUnder(heap, head["e"], b)]_vars

\* a second pass has run over a tree the first pass had fused
C8_Witness ==
    /\ op = <<"optimize", "e">>
    /\ result = Done
    /\ passes["e"] = 2
    /\ \E i \in DOMAIN heap : heap[i].content[1] = "binary" /\ heap[i].content[2][1] # "fn"

(***************************************************************************)
(* C9  Tree shape: when a build has returned without raising, every        *)
(* BinaryOperator reachable from the root has both children and every      *)
(* UnaryOperator its left child, and optimize() keeps it so.               *)
(***************************************************************************)
RECURSIVE HasOperands(_, _)
HasOperands(h, n) ==
    \/ n = 0
    \/ /\ Kind(h, n) = "binary" => h[n].left # 0 /\ h[n].right # 0
       /\ Kind(h, n) = "unary" => h[n].left # 0
       /\ HasOperands(h, h[n].left)
       /\ HasOperands(h, h[n].right)

C9_OperandsPresent ==
    [][/\ (op'[1] = "build" /\ result' = Done) => HasOperands(heap', head'["e"])
       /\ (Returned("optimize") /\ HasOperands(heap, head["e"]))
            => HasOperands(heap', head'["e"])]_vars

(***************************************************************************)
(* The value a formula of SpecParse is claimed to have                     *)
(***************************************************************************)
\* the precedence levels as the specification gives them
Level(o) == IF o \in {"+", "-"} THEN 0 ELSE IF o \in {"*", "/"} THEN 1 ELSE 2

Leveled == {"+", "-", "*", "/", "^"}

\* o applied to the values a and b, a failed operand being the outcome
Op(o, a, b) ==
    IF IsFail(a) THEN a
    ELSE IF IsFail(b) THEN b
    ELSE CASE o = "+" -> function_plus(a, b)
           [] o = "-" -> function_minus(a, b)
           [] o = "*" -> function_multiplies(a, b)
           [] o = "/" -> function_divides(a, b)
           [] o = "^" -> function_pow(a, b)
           [] o = "%" -> function_modulus(a, b)

\* the function a name stands for, tg and atg being aliases
NameOf(f) ==
    CASE f = <<"t", "g">> -> "tan"
      [] f = <<"a", "t", "g">> -> "atan"
      [] f = <<"s", "i", "n">> -> "sin"
      [] f = <<"c", "o", "s">> -> "cos"
      [] f = <<"t", "a", "n">> -> "tan"
      [] f = <<"a", "s", "i", "n">> -> "asin"
      [] f = <<"a", "c", "o", "s">> -> "acos"
      [] f = <<"a", "t", "a", "n">> -> "atan"
      [] f = <<"l", "n">> -> "ln"
      [] f = <<"e", "x", "p">> -> "exp"
      [] f = <<"a", "b", "s">> -> "abs"
      [] f = <<"s", "q", "r", "t">> -> "sqrt"
      [] f = <<"c", "b", "r", "t">> -> "cbrt"

Fn(f, a) == IF IsFail(a) THEN a ELSE LibUnary(NameOf(f), a)

\* the value the operand c has in the evaluation that op records
Val(c) ==
    IF IsDigit(c) THEN Num(DigitVal(c))
    ELSE IF op[1] = "eval_x" /\ op[3] = c THEN op[4]
    ELSE IF c \in DOMAIN dict["e"] THEN dict["e"][c]
    ELSE Unassigned(c)

Evaluating == op[1] \in {"eval", "eval_x"}

\* the evaluated source reads "a o1 b o2 c"
IsChained(src) ==
    /\ Len(src) = 5
    /\ src[2] \in Operators
    /\ src[4] \in Operators

\* the evaluated source reads "(a o1 b) o2 c"
IsParenthesised(src) ==
    /\ Len(src) = 7
    /\ src[1] = "("
    /\ src[5] = ")"

\* the evaluated source reads "f(a) o b"
IsApplied(src) ==
    /\ Len(src) > 5
    /\ SubSeq(src, 1, Len(src) - 5) \in FunTexts
    /\ src[Len(src) - 4] = "("
    /\ src[Len(src) - 2] = ")"

(***************************************************************************)
(* C3  Binary operator precedence: with op2 on a strictly higher level     *)
(* than op1, "a op1 b op2 c" is op1(a, op2(b, c)), "a op2 b op1 c" is      *)
(* op1(op2(a, b), c), and "(a op1 b) op2 c" is op2(op1(a, b), c); "2+3*4"  *)
(* is 14 and "(2+3)*4" is 20.                                              *)
(***************************************************************************)
ChainedValue(src) ==
    IF Level(src[4]) > Level(src[2])
    THEN Op(src[2], Val(src[1]), Op(src[4], Val(src[3]), Val(src[5])))
    ELSE Op(src[4], Op(src[2], Val(src[1]), Val(src[3])), Val(src[5]))

ParenthesisedValue(src) ==
    Op(src[6], Op(src[3], Val(src[2]), Val(src[4])), Val(src[7]))

C3_Precedence ==
    Evaluating =>
        /\ (IsChained(input["e"]) /\ {input["e"][2], input["e"][4]} \subseteq Leveled
              /\ Level(input["e"][2]) # Level(input["e"][4]))
             => result = ChainedValue(input["e"])
        /\ (IsParenthesised(input["e"]) /\ {input["e"][3], input["e"][6]} \subseteq Leveled
              /\ Level(input["e"][6]) > Level(input["e"][3]))
             => result = ParenthesisedValue(input["e"])
        /\ input["e"] = <<"2", "+", "3", "*", "4">> => result = Num(14)
        /\ input["e"] = <<"(", "2", "+", "3", ")", "*", "4">> => result = Num(20)

\* "(x-3)*2" evaluated with x overridden by 4, and found to be 2
C3_Witness ==
    /\ op = <<"eval_x", "e", "x", Num(4)>>
    /\ input["e"] = <<"(", "x", "-", "3", ")", "*", "2">>
    /\ result = Num(2)

(***************************************************************************)
(* C4  Every named function binds tighter than every binary operator:      *)
(* "f(a) op b" is op(f(a), b) for each function name f (tg, atg included)  *)
(* and each of + - * / ^ % (here: never a value known to be another one). *)
(***************************************************************************)
AppliedValue(src) ==
    Op(src[Len(src) - 1],
       Fn(SubSeq(src, 1, Len(src) - 5), Val(src[Len(src) - 3])),
       Val(src[Len(src)]))

C4_FunctionsBindTighter ==
    (Evaluating /\ IsApplied(input["e"]))
        => ~Distinct(result, AppliedValue(input["e"]))

(***************************************************************************)
(* C5  Operators of one precedence level associate to the left, ^ too:     *)
(* "a op1 b op2 c" is op2(op1(a, b), c); "2^3^2" is 64 and "8-3-2" is 3.   *)
(***************************************************************************)
C5_LeftAssociative ==
    Evaluating =>
        /\ (IsChained(input["e"]) /\ {input["e"][2], input["e"][4]} \subseteq Leveled
              /\ Level(input["e"][2]) = Level(input["e"][4]))
             => result = Op(input["e"][4],
                            Op(input["e"][2], Val(input["e"][1]), Val(input["e"][3])),
                            Val(input["e"][5]))
        /\ input["e"] = <<"2", "^", "3", "^", "2">> => result = Num(64)
        /\ input["e"] = <<"8", "-", "3", "-", "2">> => result = Num(3)

\* "x^3^2" evaluated with x overridden by -3: (-3)^3 is -27, squared 729
C5_Witness ==
    /\ op = <<"eval_x", "e", "x", Num(-3)>>
    /\ input["e"] = <<"x", "^", "3", "^", "2">>
    /\ result = Num(729)

(***************************************************************************)
(* C10  Builder and evaluator recover the textual operand order: the tree  *)
(* built from a well-formed postfix sequence evaluates (as built, before   *)
(* any optimize) to what a left-to-right stack evaluation of the sequence  *)
(* yields; for "a b op" the right child is a, the left child is b, and the *)
(* value is op(a, b).                                                      *)
(***************************************************************************)
RECURSIVE StackEval(_, _, _)
\* the stack after the symbols from the i-th on, an operator taking the top
\* of the stack as its last operand
StackEval(symbols, i, stack) ==
    IF i > Len(symbols) THEN stack
    ELSE LET sym == symbols[i]
             n   == Len(stack)
         IN  CASE sym[1] = "const" -> StackEval(symbols, i + 1, Append(stack, sym[2]))
               [] sym[1] = "param" -> StackEval(symbols, i + 1, Append(stack, Val(sym[2])))
               [] sym[1] = "unary" ->
                    StackEval(symbols, i + 1,
                              [stack EXCEPT ![n] = IF IsFail(@) THEN @
                                                   ELSE LibUnary(sym[2][2], @)])
               [] sym[1] = "binary" ->
                    StackEval(symbols, i + 1,
                              Append(SubSeq(stack, 1, n - 2),
                                     IF IsFail(stack[n - 1]) THEN stack[n - 1]
                                     ELSE IF IsFail(stack[n]) THEN stack[n]
                                     ELSE LibBinary(sym[2][2], stack[n - 1], stack[n])))

C10_TextualOrder ==
    (Evaluating /\ passes["e"] = 0) =>
        /\ result = StackEval(input["e"], 1, <<>>)[1]
        /\ (Len(input["e"]) = 3 /\ input["e"][3][1] = "binary")
             => /\ heap[heap[head["e"]].right].content = input["e"][1]
                /\ heap[heap[head["e"]].left].content = input["e"][2]
                /\ result = StackEval(<<input["e"][1], input["e"][2], input["e"][3]>>,
                                      1, <<>>)[1]

\* "7 2 x - %" evaluated with x overridden by 4: 7 % (2 - 4) is 1
C10_Witness ==
    /\ op = <<"eval_x", "e", "x", Num(4)>>
    /\ passes["e"] = 0
    /\ input["e"] = << <<"const", Num(7)>>, <<"const", Num(2)>>, <<"param", "x">>,
                       <<"binary", <<"fn", "minus">>>>, <<"binary", <<"fn", "modulus">>>> >>
    /\ result = Num(1)

(***************************************************************************)
(* C2  No node is shared between two expressions: an optimize() on one     *)
(* expression leaves the content and the children of every node under the  *)
(* root of every other expression (a copy, or the copy a closure of        *)
(* as_unary holds) as they were, hence its values too.                     *)
(***************************************************************************)
C2_CopiesAreApart ==
    [][\A o \in DOMAIN head :
          op' = <<"optimize", o>>
            => \A other \in DOMAIN head \ {o} :
                  TreeOf(heap', head'[other]) = TreeOf(heap, head[other])]_vars

(***************************************************************************)
(* C11  build is all-or-nothing: a build that raises a parse error or a    *)
(* build/arity error on an expression holding a tree leaves the root, the  *)
(* tree under it and the dictionary as they were, so eval() returns what   *)
(* it returned before.                                                     *)
(***************************************************************************)
C11_FailedBuildKeepsTree ==
    [][(op'[1] = "build" /\ result'[1] = "throw")
          => /\ TreeOf(heap', head'["e"]) = TreeOf(heap, head["e"])
             /\ dict' = dict
             /\ \A b \in Bindings :
                    ValuesUnder(heap', head'["e"], b) = ValuesUnder(heap, head["e"], b)]_vars

(***************************************************************************)
(* C12  Constants and Parameters are leaves: when a build has returned     *)
(* without raising, every node reachable from the root whose content is a  *)
(* Constant or a Parameter has no children, and optimize() keeps it so,    *)
(* a node it folds to a Constant included.                                 *)
(***************************************************************************)
RECURSIVE ValuesAreLeaves(_, _)
ValuesAreLeaves(h, n) ==
    \/ n = 0
    \/ /\ Kind(h, n) \in {"const", "param"} => h[n].left = 0 /\ h[n].right = 0
       /\ ValuesAreLeaves(h, h[n].left)
       /\ ValuesAreLeaves(h, h[n].right)

C12_ValuesAreLeaves ==
    [][/\ (op'[1] = "build" /\ result' = Done) => ValuesAreLeaves(heap', head'["e"])
       /\ (Returned("optimize") /\ ValuesAreLeaves(heap, head["e"]))
            => ValuesAreLeaves(heap', head'["e"])]_vars

(***************************************************************************)
(* C13  Construction ends normally on every input: a build without the     *)
(* optimize pass ends with a tree or with a reported error, and the        *)
(* builder never reads the top of its node stack while the stack is empty. *)
(***************************************************************************)
C13_ConstructionEnds ==
    [][op'[1] = "build"
          => /\ result' # EmptyTop
             /\ op'[3] = "build" => (result' = Done \/ result'[1] = "throw")]_vars

(***************************************************************************)
(* C14  One optimize() pass reaches the fusion fixed point: in a           *)
(* well-formed tree that optimize() has passed over, no BinaryOperator has *)
(* a UnaryOperator child, the child of every UnaryOperator is a Parameter, *)
(* no operator node is evalutable, and a further pass changes nothing.     *)
(***************************************************************************)
ChildKinds(h, n) ==
    {Kind(h, c) : c \in {h[n].left, h[n].right} \ {0}}

RECURSIVE NothingToFuse(_, _)
NothingToFuse(h, n) ==
    \/ n = 0
    \/ /\ Kind(h, n) = "binary" => "unary" \notin ChildKinds(h, n)
       /\ Kind(h, n) = "unary" => Kind(h, h[n].left) = "param"
       /\ Kind(h, n) \in {"unary", "binary"} => ~evalutable(h, n)
       /\ NothingToFuse(h, h[n].left)
       /\ NothingToFuse(h, h[n].right)

C14_OnePassFixedPoint ==
    (status = "ok" /\ passes["e"] >= 1)
        => /\ NothingToFuse(heap, head["e"])
           /\ \A ord \in ArgOrders :
                 LET again == optimize_impl(heap, head["e"], dict["e"], ord)
                 IN  /\ again.out = Done
                     /\ TreeOf(again.heap, again.node) = TreeOf(heap, head["e"])

\* one pass over "x abs 7 /" has fused the abs into the division
C14_Witness ==
    /\ op = <<"optimize", "e">>
    /\ passes["e"] = 1
    /\ input["e"] = << <<"param", "x">>, <<"unary", <<"fn", "abs">>>>,
                       <<"const", Num(7)>>, <<"binary", <<"fn", "divides">>>> >>
    /\ \E i \in DOMAIN heap : heap[i].content[1] = "binary" /\ heap[i].content[2][1] # "fn"

====
